---- MODULE Spec2Model ----
(***************************************************************************)
(* Model of fastmri/data/mri_data.py: SliceDataset (index construction,    *)
(* on-disk dataset cache, sub-sampling, column filter, item access) and    *)
(* CombinedSliceDataset (concatenated indexing over several datasets).     *)
(***************************************************************************)
EXTENDS Integers, Sequences, FiniteSets, TLC

VARIABLES
    fs,          \* the scan files on disk: path -> file state
    cacheFile,   \* dataset_cache_file on disk: absent, or a pickled mapping
    ds,          \* the most recently constructed SliceDataset
    cds,         \* the CombinedSliceDataset object (self.datasets)
    last,        \* what the last operation did (inputs, result, I/O it made)
    fsChanges    \* how many times the files on disk were changed from outside

vars == <<fs, cacheFile, ds, cds, last, fsChanges>>

----------------------------------------------------------------------------
(* Bounds of the model *)

\* the number of outside changes to the scan files in one behaviour
MaxFsChanges == 1
\* the longest roots sequence given to CombinedSliceDataset
MaxRoots == 2
\* item indices run from -MaxIdx to MaxIdx
MaxIdx == 3

----------------------------------------------------------------------------
(* The world outside the program: directories, scan files, inputs *)

Roots == {"r1", "r2"}

\* A path is a directory and a file name; names are ordered as integers,
\* which stands for the lexicographic order of the path strings.
Paths ==
    { [dir |-> "r1", name |-> 1], [dir |-> "r1", name |-> 2],
      [dir |-> "r2", name |-> 1] }

\* ISMRMRD headers: encodedSpace and reconSpace matrixSize (x, y, z),
\* encodingLimits/kspace_encoding_step_1 center and maximum.
HeaderA == [enc |-> <<4, 2, 1>>, rec |-> <<2, 2, 1>>, center |-> 1, maximum |-> 1]
HeaderB == [enc |-> <<4, 3, 1>>, rec |-> <<2, 2, 1>>, center |-> 1, maximum |-> 2]

\* A file on disk: readable with n slices of kspace and a header, unreadable
\* (h5py cannot open it, or its header lacks a tag), or absent.
FileA == [st |-> "ok", n |-> 2, hdr |-> HeaderA]
FileB == [st |-> "ok", n |-> 1, hdr |-> HeaderB]
FileBad == [st |-> "bad", n |-> 0, hdr |-> HeaderA]
FileAbsent == [st |-> "absent", n |-> 0, hdr |-> HeaderA]
FileStates == {FileA, FileB, FileBad, FileAbsent}

InitFs ==
    [p \in Paths |->
        IF p.dir = "r1" /\ p.name = 1 THEN FileA ELSE FileB]

Challenges == {"singlecoil", "multicoil", "foo"}

\* sample_rate as an exact fraction num/den (dyadic, so that the float
\* product len * sample_rate is exact)
Rates == { [num |-> 1, den |-> 1], [num |-> 1, den |-> 2] }
FullRate == [num |-> 1, den |-> 1]

\* num_cols: None (given = FALSE) or a collection of column counts
NumColsChoices ==
    { [given |-> FALSE, cols |-> {}], [given |-> TRUE, cols |-> {}],
      [given |-> TRUE, cols |-> {2}] }

Indices == (0 - MaxIdx) .. MaxIdx

----------------------------------------------------------------------------
(* Helpers *)

Min(a, b) == IF a < b THEN a ELSE b

Range(s) == { s[k] : k \in 1..Len(s) }

\* all orders in which the elements of a finite set can be listed
Listings(S) ==
    IF S = {} THEN { <<>> }
    ELSE LET n == Cardinality(S)
         IN  { f \in [1..n -> S] : \A x \in S : \E k \in 1..n : f[k] = x }

\* Python's round() of the non-negative fraction a/den: to the nearest
\* integer, a tie going to the even one.
PyRound(a, den) ==
    LET q == a \div den
        r == a % den
    IN  IF 2 * r < den THEN q
        ELSE IF 2 * r > den THEN q + 1
        ELSE IF q % 2 = 0 THEN q ELSE q + 1

\* Python's s[i] on a list of length len: the 1-based position read, or 0
\* when the index is out of range (IndexError). Negative i counts from the end.
PyIndex(len, i) ==
    IF 0 <= i /\ i < len THEN i + 1
    ELSE IF i < 0 /\ 0 - len <= i THEN len + i + 1
    ELSE 0

\* pathlib's fname.name
BaseName(fname) == fname.name

----------------------------------------------------------------------------
(* SliceDataset.__init__ *)

ValidChallenges == {"singlecoil", "multicoil"}

EmptyMap == [r \in {} |-> <<>>]

NoCacheFile == [exists |-> FALSE, map |-> EmptyMap]

\* if dataset_cache_file.exists(): pickle.load(f) else {}
LoadCache(cf) == IF cf.exists THEN cf.map ELSE EmptyMap

\* faulty variant: the lookup never finds the key
CacheMissAlways(dataset_cache, root) == TRUE

\* dataset_cache.get(root) is None
CacheMiss(dataset_cache, root) == root \notin DOMAIN dataset_cache

\* faulty variant: the mapping written holds the new key alone
StoreCacheFresh(dataset_cache, root, examples) ==
    [r \in {root} |-> examples]

\* dataset_cache[root] = examples
StoreCache(dataset_cache, root, examples) ==
    [r \in (DOMAIN dataset_cache) \cup {root} |->
        IF r = root THEN examples ELSE dataset_cache[r]]

\* pickle.dump(dataset_cache, f)
DumpCache(dataset_cache) == [exists |-> TRUE, map |-> dataset_cache]

\* faulty variant: the cache is dumped after sampling and filtering
CachedOwn(index, own) == own

\* the list bound to dataset_cache[root] when the cache is dumped: the index
\* just built (index), not the list the dataset ends up with (own)
CachedExamples(index, own) == index

\* pathlib.Path(root).iterdir(): the entries of the directory, in any order
IterDir(fsv, root) ==
    Listings({ p \in Paths : p.dir = root /\ fsv[p].st # "absent" })

PathLess(p, q) == p.name < q.name

\* faulty variant: the listing is used in the order iterdir gave it
UnsortedPaths(files) == files

\* sorted(files)
RECURSIVE SortPaths(_)
SortPaths(files) ==
    IF files = <<>> THEN <<>>
    ELSE LET m == CHOOSE k \in 1..Len(files) :
                    \A j \in 1..Len(files) : ~PathLess(files[j], files[k])
             rest == [j \in 1..(Len(files) - 1) |->
                        IF j < m THEN files[j] ELSE files[j + 1]]
         IN  <<files[m]>> \o SortPaths(rest)

\* the metadata dict of one file
Metadata(hdr) ==
    LET padding_left == (hdr.enc[2] \div 2) - hdr.center
        enc_limits_max == hdr.maximum + 1
    IN  [padding_left |-> padding_left,
         padding_right |-> padding_left + enc_limits_max,
         encoding_size |-> hdr.enc,
         recon_size |-> hdr.rec]

\* [(fname, slice_ind, metadata) for slice_ind in range(num_slices)]
FileExamples(fname, num_slices, metadata) ==
    [k \in 1..num_slices |-> <<fname, k - 1, metadata>>]

\* for fname in sorted(files): open, parse the header, extend self.examples.
\* An unreadable file raises and ends the loop.
RECURSIVE ScanFiles(_, _, _)
ScanFiles(fsv, files, acc) ==
    IF files = <<>> THEN acc
    ELSE LET fname == Head(files)
             hf == fsv[fname]
             opened == Append(acc.opened, fname)
         IN  IF hf.st # "ok"
             THEN [ok |-> FALSE, examples |-> acc.examples, opened |-> opened]
             ELSE ScanFiles(fsv, Tail(files),
                    [ok |-> TRUE,
                     examples |-> acc.examples
                                    \o FileExamples(fname, hf.n, Metadata(hf.hdr)),
                     opened |-> opened])

\* random.shuffle(self.examples): any permutation
Shuffles(examples) ==
    IF examples = <<>> THEN { <<>> }
    ELSE { [k \in 1..Len(examples) |-> examples[p[k]]] :
             p \in Permutations(1..Len(examples)) }

\* faulty variant: int() instead of round()
NumExamplesFloor(len, sample_rate) == (len * sample_rate.num) \div sample_rate.den

\* round(len(self.examples) * sample_rate)
NumExamples(len, sample_rate) == PyRound(len * sample_rate.num, sample_rate.den)

\* self.examples[:num_examples]
Truncate(examples, num_examples) ==
    SubSeq(examples, 1, Min(num_examples, Len(examples)))

\* if sample_rate < 1: shuffle and truncate
Sampled(examples, sample_rate) ==
    IF sample_rate.num < sample_rate.den
    THEN { Truncate(sh, NumExamples(Len(sh), sample_rate)) : sh \in Shuffles(examples) }
    ELSE { examples }

\* [ex for ex in self.examples if ex[2]["encoding_size"][1] in num_cols]
RECURSIVE KeepCols(_, _)
KeepCols(examples, cols) ==
    IF examples = <<>> THEN <<>>
    ELSE LET ex == Head(examples)
         IN  (IF ex[3].encoding_size[2] \in cols THEN <<ex>> ELSE <<>>)
                \o KeepCols(Tail(examples), cols)

\* if num_cols: (None and an empty collection are both falsy)
Truthy(num_cols) == num_cols.given /\ num_cols.cols # {}

FilterCols(examples, num_cols) ==
    IF Truthy(num_cols) THEN KeepCols(examples, num_cols.cols) ELSE examples

\* The record of one operation: its inputs, how it ended, the I/O it made.
NoLog ==
    [op |-> "none", root |-> "", rate |-> FullRate,
     num_cols |-> [given |-> FALSE, cols |-> {}], i |-> 0,
     result |-> "", value |-> 0,
     probed |-> FALSE, wrote |-> FALSE, listed |-> {}, opened |-> <<>>,
     index |-> <<>>, sampled |-> <<>>, delegated |-> <<>>, calls |-> <<>>]

\* if sample_rate < 1: ...; if num_cols: ... : the lists the constructor can
\* end with, each with the list it had before the column filter
Finalize(index, sample_rate, num_cols) ==
    { [sampled |-> sm, examples |-> FilterCols(sm, num_cols)] :
        sm \in Sampled(index, sample_rate) }

\* The ways one construction can go: one outcome per directory listing order
\* and per shuffle. Each outcome carries the cache file it leaves on disk.
SliceDatasetInit(fsv, cf, root, challenge, sample_rate, num_cols) ==
    LET base == [NoLog EXCEPT !.op = "new", !.root = root,
                    !.rate = sample_rate, !.num_cols = num_cols]
    IN
    IF challenge \notin ValidChallenges
    THEN { [examples |-> <<>>, cacheFile |-> cf,
            log |-> [base EXCEPT !.result = "ValueError"]] }
    ELSE
      LET dataset_cache == LoadCache(cf)
          probedLog == [base EXCEPT !.probed = TRUE]
      IN  IF CacheMiss(dataset_cache, root)
          THEN UNION {
                 LET scan == ScanFiles(fsv, SortPaths(files),
                               [ok |-> TRUE, examples |-> <<>>, opened |-> <<>>])
                     scanLog == [probedLog EXCEPT !.listed = {root},
                                                  !.opened = scan.opened]
                 IN  IF ~scan.ok
                     THEN { [examples |-> scan.examples, cacheFile |-> cf,
                             log |-> [scanLog EXCEPT !.result = "IOError"]] }
                     ELSE { [examples |-> f.examples,
                             cacheFile |->
                                DumpCache(StoreCache(dataset_cache, root,
                                    CachedExamples(scan.examples, f.examples))),
                             log |-> [scanLog EXCEPT !.result = "ok",
                                         !.wrote = TRUE,
                                         !.index = scan.examples,
                                         !.sampled = f.sampled]] :
                            f \in Finalize(scan.examples, sample_rate, num_cols) } :
                 files \in IterDir(fsv, root) }
          ELSE { [examples |-> f.examples, cacheFile |-> cf,
                  log |-> [probedLog EXCEPT !.result = "ok",
                              !.index = dataset_cache[root],
                              !.sampled = f.sampled]] :
                 f \in Finalize(dataset_cache[root], sample_rate, num_cols) }

----------------------------------------------------------------------------
(* SliceDataset.__len__ and __getitem__ *)

SliceLen(examples) == Len(examples)

\* self.examples[i], open the file, read the slice, call the transform
SliceGetItem(examples, transform, fsv, i) ==
    LET k == PyIndex(Len(examples), i)
    IN  IF k = 0
        THEN [result |-> "IndexError", opened |-> <<>>, calls |-> <<>>]
        ELSE LET fname == examples[k][1]
                 dataslice == examples[k][2]
                 metadata == examples[k][3]
                 hf == fsv[fname]
             IN  IF hf.st # "ok" \/ dataslice >= hf.n
                 THEN [result |-> "IOError", opened |-> <<fname>>, calls |-> <<>>]
                 ELSE [result |-> "ok", opened |-> <<fname>>,
                       calls |-> << [transform |-> transform,
                                     fname |-> BaseName(fname),
                                     dataslice |-> dataslice,
                                     attrs |-> metadata] >>]

----------------------------------------------------------------------------
(* State machine: single-root datasets sharing one cache file *)

\* The transform is an opaque callable: a standalone dataset is given
\* transform 0, the k-th dataset of a combined one transforms[k] = k.
NoDataset == [alive |-> FALSE, transform |-> 0, examples |-> <<>>]

NoCombined == [alive |-> FALSE, datasets |-> <<>>]

Init ==
    /\ fs = InitFs
    /\ cacheFile = NoCacheFile
    /\ ds = NoDataset
    /\ cds = NoCombined
    /\ last = NoLog
    /\ fsChanges = 0

NewSliceDataset ==
    \E root \in Roots, challenge \in Challenges, sample_rate \in Rates,
       num_cols \in NumColsChoices :
      \E o \in SliceDatasetInit(fs, cacheFile, root, challenge, sample_rate, num_cols) :
        /\ cacheFile' = o.cacheFile
        /\ ds' = IF o.log.result = "ok"
                 THEN [alive |-> TRUE, transform |-> 0, examples |-> o.examples]
                 ELSE ds
        /\ last' = o.log
        /\ UNCHANGED <<fs, cds, fsChanges>>

DatasetGetItem ==
    /\ ds.alive
    /\ \E i \in Indices :
         LET o == SliceGetItem(ds.examples, ds.transform, fs, i)
         IN  last' = [NoLog EXCEPT !.op = "get", !.i = i, !.result = o.result,
                                   !.opened = o.opened, !.calls = o.calls]
    /\ UNCHANGED <<fs, cacheFile, ds, cds, fsChanges>>

\* The files under the roots change from outside the program: a file is
\* replaced, removed, created or made unreadable.
FsChange ==
    /\ fsChanges < MaxFsChanges
    /\ \E p \in Paths, st \in FileStates :
         /\ st # fs[p]
         /\ fs' = [fs EXCEPT ![p] = st]
    /\ fsChanges' = fsChanges + 1
    /\ last' = [NoLog EXCEPT !.op = "fs"]
    /\ UNCHANGED <<cacheFile, ds, cds>>

Next == NewSliceDataset \/ DatasetGetItem \/ FsChange

Spec == Init /\ [][Next]_vars

----------------------------------------------------------------------------
(* CombinedSliceDataset *)

\* sample_rates=None becomes [1] * len(roots)
DefaultRates(sample_rates, n) ==
    IF sample_rates.given THEN sample_rates.seq ELSE [k \in 1..n |-> FullRate]

\* for i in range(len(roots)): self.datasets.append(SliceDataset(...)).
\* acc holds the datasets built so far, the cache file as the constructions
\* so far left it, and the I/O made so far; a construction that raises ends
\* the loop with its error.
RECURSIVE BuildDatasets(_, _, _, _, _, _, _, _)
BuildDatasets(fsv, roots, transforms, challenges, sample_rates, num_cols, k, acc) ==
    IF k > Len(roots) THEN { [acc EXCEPT !.log.result = "ok"] }
    ELSE UNION {
           LET log == [acc.log EXCEPT
                         !.probed = acc.log.probed \/ o.log.probed,
                         !.wrote = acc.log.wrote \/ o.log.wrote,
                         !.listed = acc.log.listed \cup o.log.listed,
                         !.opened = acc.log.opened \o o.log.opened]
           IN  IF o.log.result # "ok"
               THEN { [datasets |-> acc.datasets, cacheFile |-> o.cacheFile,
                       log |-> [log EXCEPT !.result = o.log.result]] }
               ELSE BuildDatasets(fsv, roots, transforms, challenges,
                        sample_rates, num_cols, k + 1,
                        [datasets |-> Append(acc.datasets,
                                        [transform |-> transforms[k],
                                         examples |-> o.examples]),
                         cacheFile |-> o.cacheFile,
                         log |-> log]) :
           o \in SliceDatasetInit(fsv, acc.cacheFile, roots[k], challenges[k],
                                  sample_rates[k], num_cols) }

CombinedInit(fsv, cf, roots, transforms, challenges, sample_rates, num_cols) ==
    LET start == [datasets |-> <<>>, cacheFile |-> cf,
                  log |-> [NoLog EXCEPT !.op = "cnew"]]
    IN  IF ~(Len(roots) = Len(transforms) /\ Len(transforms) = Len(challenges))
        THEN { [start EXCEPT !.log.result = "AssertionError"] }
        ELSE IF sample_rates.given /\ Len(sample_rates.seq) # Len(roots)
        THEN { [start EXCEPT !.log.result = "AssertionError"] }
        ELSE BuildDatasets(fsv, roots, transforms, challenges,
                 DefaultRates(sample_rates, Len(roots)), num_cols, 1, start)

\* __len__: length = length + len(dataset) over self.datasets
RECURSIVE CombinedLen(_)
CombinedLen(datasets) ==
    IF datasets = <<>> THEN 0
    ELSE CombinedLen(SubSeq(datasets, 1, Len(datasets) - 1))
            + SliceLen(datasets[Len(datasets)].examples)

\* faulty variant: off by one
InDatasetInclusive(i, len) == i <= len

\* the test that stops the walk at a dataset
InDataset(i, len) == i < len

\* __getitem__: walk self.datasets from position k with the running index i;
\* falling off the end of the loop returns None
RECURSIVE CombinedGetItem(_, _, _, _)
CombinedGetItem(datasets, fsv, k, i) ==
    IF k > Len(datasets)
    THEN [result |-> "None", opened |-> <<>>, calls |-> <<>>, delegated |-> <<>>]
    ELSE IF InDataset(i, SliceLen(datasets[k].examples))
    THEN LET o == SliceGetItem(datasets[k].examples, datasets[k].transform, fsv, i)
         IN  [result |-> o.result, opened |-> o.opened, calls |-> o.calls,
              delegated |-> << <<k, i>> >>]
    ELSE CombinedGetItem(datasets, fsv, k + 1,
                         i - SliceLen(datasets[k].examples))

----------------------------------------------------------------------------
(* State machine: one CombinedSliceDataset object *)

SeqsOf(S, n) == [1..n -> S]

RateArgs ==
    { [given |-> FALSE, seq |-> <<>>] }
      \cup { [given |-> TRUE, seq |-> sq] :
               sq \in UNION { SeqsOf(Rates, n) : n \in 0..MaxRoots } }

NewCombined ==
    /\ ~cds.alive
    /\ \E n \in 0..MaxRoots, nT \in 0..MaxRoots, nC \in 0..MaxRoots :
       \E roots \in SeqsOf(Roots, n), challenges \in SeqsOf(Challenges, nC),
          sample_rates \in RateArgs, num_cols \in NumColsChoices :
       \E o \in CombinedInit(fs, cacheFile, roots, [k \in 1..nT |-> k],
                             challenges, sample_rates, num_cols) :
         /\ cacheFile' = o.cacheFile
         /\ cds' = IF o.log.result = "ok"
                   THEN [alive |-> TRUE, datasets |-> o.datasets]
                   ELSE cds
         /\ last' = o.log
    /\ UNCHANGED <<fs, ds, fsChanges>>

CombinedLength ==
    /\ cds.alive
    /\ last' = [NoLog EXCEPT !.op = "clen", !.result = "ok",
                             !.value = CombinedLen(cds.datasets)]
    /\ UNCHANGED <<fs, cacheFile, ds, cds, fsChanges>>

CombinedGet ==
    /\ cds.alive
    /\ \E i \in Indices :
         LET o == CombinedGetItem(cds.datasets, fs, 1, i)
         IN  last' = [NoLog EXCEPT !.op = "cget", !.i = i, !.result = o.result,
                                   !.opened = o.opened, !.calls = o.calls,
                                   !.delegated = o.delegated]
    /\ UNCHANGED <<fs, cacheFile, ds, cds, fsChanges>>

NextCombined == NewCombined \/ CombinedLength \/ CombinedGet

SpecCombined == Init /\ [][NextCombined]_vars

----------------------------------------------------------------------------
(* Properties *)

Count(s, e) == Cardinality({ k \in 1..Len(s) : s[k] = e })

\* every entry of s occurs in t at least as often as in s
SubBag(s, t) == \A e \in Range(s) : Count(s, e) <= Count(t, e)

\* the lengths of the first k datasets added up, front to back
RECURSIVE SumLens(_, _)
SumLens(datasets, k) ==
    IF k = 0 THEN 0
    ELSE SumLens(datasets, k - 1) + Len(datasets[k].examples)

TotalLen == SumLens(cds.datasets, Len(cds.datasets))

\* what the transform of dataset d is called with for d's local index j
CallFor(d, j) ==
    [transform |-> d.transform,
     fname |-> d.examples[j + 1][1].name,
     dataslice |-> d.examples[j + 1][2],
     attrs |-> d.examples[j + 1][3]]

\* C1: a combined index sum(len(d_m), m < k) + j with 0 <= j < len(d_k) is
\* delegated to dataset k with local index j and to nothing else, and the
\* transform of dataset k is called for its j-th entry; length() is the sum
\* of the constituent lengths. Empty constituents included.
C1_Routing ==
    /\ last.op = "clen" => last.value = TotalLen
    /\ last.op = "cget" =>
         \A k \in 1..Len(cds.datasets) :
           \A j \in 0..(Len(cds.datasets[k].examples) - 1) :
             last.i = SumLens(cds.datasets, k - 1) + j =>
               /\ last.delegated = << <<k, j>> >>
               /\ last.result = "ok"
               /\ last.calls = << CallFor(cds.datasets[k], j) >>

C1_Witness ==
    /\ last.op = "cget"
    /\ Len(cds.datasets) = 2
    /\ cds.datasets[1].examples = <<>>
    /\ Len(cds.datasets[2].examples) = 3
    /\ last.i = 1
    /\ last.delegated = << <<2, 1>> >>
    /\ last.result = "ok"

\* C2: CombinedSliceDataset.get(i) with i < 0 or i >= length() ends in an
\* out-of-range error, returns nothing and calls no transform.
C2_OutOfRangeFails ==
    (last.op = "cget" /\ (last.i < 0 \/ last.i >= TotalLen)) =>
        (last.result = "IndexError" /\ last.calls = <<>>)

\* C3: SliceDataset.get(i) with i < 0 or i >= length() fails with an
\* out-of-range error, opening no file and calling no transform; with i in
\* range (and the file still readable) it calls the transform with the file
\* name and slice index of the i-th entry.
C3_GetContract ==
    last.op = "get" =>
        IF last.i < 0 \/ last.i >= Len(ds.examples)
        THEN last.result = "IndexError" /\ last.opened = <<>> /\ last.calls = <<>>
        ELSE last.result # "IOError" =>
                (last.result = "ok" /\ last.calls = << CallFor(ds, last.i) >>)

\* C4: once the cache file holds an entry for root R, a construction over R
\* with no sampling and no column filter succeeds with exactly the stored
\* list, lists no directory, opens no scan file and leaves the cache file
\* as it is, whatever the files under R have become.
C4_CacheRoundTrip ==
    [][ \A R \in Roots :
          ( /\ cacheFile.exists
            /\ R \in DOMAIN cacheFile.map
            /\ last'.op = "new"
            /\ last'.root = R
            /\ last'.result # "ValueError"
            /\ last'.rate = FullRate
            /\ ~last'.num_cols.given )
          => ( /\ last'.result = "ok"
               /\ ds'.alive
               /\ ds'.examples = cacheFile.map[R]
               /\ last'.listed = {}
               /\ last'.opened = <<>>
               /\ cacheFile' = cacheFile ) ]_vars

C4_Witness ==
    /\ last.op = "new"
    /\ last.result = "ok"
    /\ last.rate = FullRate
    /\ ~last.num_cols.given
    /\ ~last.wrote
    /\ last.listed = {}
    /\ \E p \in Paths : p.dir = last.root /\ fs[p].st = "bad"
    /\ Len(ds.examples) = 3
    /\ ds.examples = cacheFile.map[last.root]

\* C5: the cache mapping only grows. No step removes a key or changes a
\* stored list; the cache file changes only in a construction that misses,
\* which adds exactly its root's key; a construction that hits does not
\* write; get neither reads nor writes the cache file.
C5_CacheOnlyGrows ==
    [][ /\ cacheFile.exists => cacheFile'.exists
        /\ \A R \in DOMAIN cacheFile.map :
             R \in DOMAIN cacheFile'.map /\ cacheFile'.map[R] = cacheFile.map[R]
        /\ cacheFile' # cacheFile =>
             /\ last'.op = "new"
             /\ last'.wrote
             /\ last'.root \notin DOMAIN cacheFile.map
        /\ (last'.op = "new" /\ last'.result = "ok"
              /\ last'.root \notin DOMAIN cacheFile.map) =>
             /\ last'.wrote
             /\ DOMAIN cacheFile'.map = (DOMAIN cacheFile.map) \cup {last'.root}
        /\ (last'.op = "new" /\ last'.root \in DOMAIN cacheFile.map) =>
             (~last'.wrote /\ cacheFile' = cacheFile)
        /\ last'.op = "get" =>
             (~last'.probed /\ ~last'.wrote /\ cacheFile' = cacheFile) ]_vars

C5_Witness ==
    /\ last.op = "new"
    /\ last.wrote
    /\ last.root = "r2"
    /\ DOMAIN cacheFile.map = {"r1", "r2"}
    /\ Len(cacheFile.map["r1"]) = 3

\* m is a/den rounded to the nearest integer, a tie going to the even one
NearestTiesEven(m, a, den) ==
    LET d == IF m * den >= a THEN m * den - a ELSE a - m * den
    IN  2 * d <= den /\ (2 * d = den => m % 2 = 0)

\* C6 as stated: every construction with a sample rate below 1 over an index
\* of N entries ends with a list of exactly round(N * r) entries, all taken
\* from the index.
C6_ResultCount ==
    (last.op = "new" /\ last.result = "ok" /\ last.rate.num < last.rate.den) =>
        /\ NearestTiesEven(Len(ds.examples),
                           Len(last.index) * last.rate.num, last.rate.den)
        /\ SubBag(ds.examples, last.index)

\* C6 amended: with a sample rate below 1 the list left by the sampling
\* step has exactly round(N * r) entries (ties to even), all taken from the
\* N-entry index, none more often than there; it is the resulting list when
\* no column filter is in effect, and a column filter in effect can only
\* drop entries from it.
C6_SampleCount ==
    (last.op = "new" /\ last.result = "ok" /\ last.rate.num < last.rate.den) =>
        /\ NearestTiesEven(Len(last.sampled),
                           Len(last.index) * last.rate.num, last.rate.den)
        /\ SubBag(last.sampled, last.index)
        /\ ~Truthy(last.num_cols) => ds.examples = last.sampled
        /\ SubBag(ds.examples, last.sampled)

C6_Witness ==
    /\ last.op = "new"
    /\ last.result = "ok"
    /\ last.rate = [num |-> 1, den |-> 2]
    /\ ~last.num_cols.given
    /\ Len(last.index) = 3
    /\ Len(ds.examples) = 2
    /\ ds.examples # SubSeq(last.index, 1, 2)

\* C7: whenever a column-count filter is given, the resulting list is the
\* subsequence of the pre-filter list whose encoding_size[1] is in the
\* allowed set: every such entry kept, every other dropped, order kept.
C7_FilterExact ==
    (last.op = "new" /\ last.result = "ok" /\ last.num_cols.given) =>
        /\ ds.examples = KeepCols(last.sampled, last.num_cols.cols)
        /\ \A k \in 1..Len(ds.examples) :
             ds.examples[k][3].encoding_size[2] \in last.num_cols.cols

\* C8: a construction that raises the invalid-challenge error has made no
\* filesystem access: cache file not probed, read or written, no directory
\* listed, no scan file opened.
C8_NoAccessBeforeError ==
    last.result = "ValueError" =>
        /\ ~last.probed
        /\ ~last.wrote
        /\ last.listed = {}
        /\ last.opened = <<>>

\* the files of a directory that exist
Present(R) == { p \in Paths : p.dir = R /\ fs[p].st # "absent" }

\* the slices of the files of p's directory that sort before p
RECURSIVE SlicesOf(_)
SlicesOf(S) ==
    IF S = {} THEN 0
    ELSE LET p == CHOOSE q \in S : TRUE
         IN  fs[p].n + SlicesOf(S \ {p})

Offset(p) == SlicesOf({ q \in Present(p.dir) : q.name < p.name })

\* examples is the full index of directory R as the files are now
IsFullIndex(examples, R) ==
    /\ Len(examples) = SlicesOf(Present(R))
    /\ \A p \in Present(R) :
         \A sl \in 0..(fs[p].n - 1) :
           examples[Offset(p) + sl + 1] = <<p, sl, Metadata(fs[p].hdr)>>

\* C9: on a cache miss with no sampling and no filter the dataset's list
\* has the files in ascending path order and, per file, slices 0..count-1
\* in ascending order: entry (slices of the files sorted before f) + s is
\* (f, s, metadata of f), and length() is the sum of the slice counts.
C9_IndexOrder ==
    (last.op = "new" /\ last.result = "ok" /\ last.wrote
        /\ last.rate = FullRate /\ ~last.num_cols.given) =>
        IsFullIndex(ds.examples, last.root)

C9_Witness ==
    /\ last.op = "new"
    /\ last.result = "ok"
    /\ last.wrote
    /\ last.rate = FullRate
    /\ ~last.num_cols.given
    /\ Len(ds.examples) = 3
    /\ ds.examples[3][1] = [dir |-> "r1", name |-> 2]
    /\ ds.examples[3][2] = 0
    /\ ds.examples[2][2] = 1

\* C10: the list a construction writes to the cache file for its root is
\* the full index in file and slice order, whatever its sample rate and
\* column filter; the dataset's own list is the sampled, filtered one.
C10_CacheHoldsFullIndex ==
    (last.op = "new" /\ last.wrote) =>
        /\ last.root \in DOMAIN cacheFile.map
        /\ IsFullIndex(cacheFile.map[last.root], last.root)
        /\ cacheFile.map[last.root] = last.index

C10_Witness ==
    /\ last.op = "new"
    /\ last.wrote
    /\ last.rate = [num |-> 1, den |-> 2]
    /\ Truthy(last.num_cols)
    /\ Len(ds.examples) = 1
    /\ Len(cacheFile.map[last.root]) = 3

====
